---- MODULE Spec2Model ----
(***************************************************************************)
(* Voice-diary backend (src/server.js): the in-memory session store, the   *)
(* chat / summarize handlers with their provider suspension points, and    *)
(* the deterministic fallback logic.                                       *)
(*                                                                         *)
(* JavaScript strings are sequences of glyphs.  Japanese glyphs are named  *)
(* in ASCII: kanji by an upper-case gloss ("FUN" for the first glyph of    *)
(* tanoshii), hiragana by lower-case romaji, katakana by romaji with a     *)
(* trailing underscore.                                                    *)
(***************************************************************************)
EXTENDS Bags, FiniteSets, Integers, Sequences, TLC

\* ---- bounds of the model ----
MaxRequests == 5    \* requests the server accepts in a run
MaxClock == 1       \* last value of the millisecond clock

\* the clients that may each have one request suspended on a provider call
Clients == {"client_a", "client_b"}

VARIABLES
    now,              \* Date.now() / new Date(), in milliseconds
    isGCPConfigured,  \* set once by initializeGCP before the server listens
    heap,             \* the session objects ever created, in creation order
    chatSessions,     \* the Map: session id -> reference (index into heap)
    inflight,         \* bag of handlers suspended at `await generateContent`
    res,              \* the response sent by the last step (NoResponse if none)
    requests,         \* number of requests accepted since the initial state
    tempFiles,        \* paths of the uploaded files that exist in uploadDir
    input,            \* arguments of the function under study (pure-function specs)
    output            \* its value, once applied

vars == <<now, isGCPConfigured, heap, chatSessions, inflight, res, requests,
          tempFiles, input, output>>

\* what the session handlers never touch
aside == <<tempFiles, input, output>>

\* ---- JavaScript values ----
Str(chars) == [type |-> "string", chars |-> chars]
Undefined == [type |-> "undefined", chars |-> <<>>]

\* an optional field of an object: absent, or present with a value
None == <<>>
Some(v) == <<v>>

\* String.prototype.includes
Includes(s, k) ==
    \E i \in 1..(Len(s) - Len(k) + 1) : SubSeq(s, i, i + Len(k) - 1) = k

\* String.prototype.toLowerCase: only cased letters change
LowerGlyph(c) ==
    CASE c = "A" -> "a"
      [] c = "B" -> "b"
      [] OTHER -> c

ToLowerCase(s) == [i \in DOMAIN s |-> LowerGlyph(s[i])]

\* String.prototype.substring(from, to), 0-based, `to` exclusive
Substring(s, from, to) ==
    SubSeq(s, from + 1, IF to < Len(s) THEN to ELSE Len(s))

IsSpace(c) == c \in {" ", "\n"}

\* String.prototype.trim
RECURSIVE TrimLeft(_)
TrimLeft(s) ==
    IF s # <<>> /\ IsSpace(Head(s)) THEN TrimLeft(Tail(s)) ELSE s

RECURSIVE TrimRight(_)
TrimRight(s) ==
    IF s # <<>> /\ IsSpace(s[Len(s)])
    THEN TrimRight(SubSeq(s, 1, Len(s) - 1))
    ELSE s

Trim(s) == TrimRight(TrimLeft(s))

\* ---- analyzeUserEmotion ----
PositiveKeywords ==
    << <<"FUN", "shi", "i">>, <<"GLAD", "shi", "i">>,
       <<"GOOD", "ka", "ltsu", "ta">>, <<"PLAIN", "CLEAR", "ra", "shi", "i">>,
       <<"LUCK", "se">>, <<"FULL", "FOOT">>, <<"PLAIN", "FOE">>,
       <<"MOST", "HIGH">> >>

NegativeKeywords ==
    << <<"BITTER", "i">>, <<"SAD", "shi", "i">>, <<"TROUBLE", "ltsu", "ta">>,
       <<"I_", "RA_", "I_", "RA_">>, <<"TIRED", "re", "ta">>,
       <<"BIG", "CHANGE">>, <<"BITTER", "ka", "ltsu", "ta">>,
       <<"SU_", "TO_", "RE_", "SU_">> >>

NeutralKeywords ==
    << <<"COMMON", "PASS">>, <<"SPECIAL", "ni">>,
       <<"i", "tsu", "mo", "PASS", "ri">>, <<"COMMON", "STEP", "PASS", "ri">>,
       <<"ma", "a", "ma", "a">> >>

\* mutant: the negative keywords are tried first
emotionKeywords_NegativeFirst ==
    << [emotion |-> "negative", keywords |-> NegativeKeywords],
       [emotion |-> "positive", keywords |-> PositiveKeywords],
       [emotion |-> "neutral", keywords |-> NeutralKeywords] >>

\* Object.entries order of emotionKeywords
emotionKeywords ==
    << [emotion |-> "positive", keywords |-> PositiveKeywords],
       [emotion |-> "negative", keywords |-> NegativeKeywords],
       [emotion |-> "neutral", keywords |-> NeutralKeywords] >>

SomeKeyword(keywords, text) ==
    \E j \in DOMAIN keywords : Includes(text, keywords[j])

\* confidence is in tenths: 8 is 0.8, 5 is 0.5
RECURSIVE EmotionFrom(_, _)
EmotionFrom(i, lowerMessage) ==
    IF i > Len(emotionKeywords)
    THEN [type |-> "neutral", confidence |-> 5]
    ELSE IF SomeKeyword(emotionKeywords[i].keywords, lowerMessage)
         THEN [type |-> emotionKeywords[i].emotion, confidence |-> 8]
         ELSE EmotionFrom(i + 1, lowerMessage)

analyzeUserEmotion(message) == EmotionFrom(1, ToLowerCase(message.chars))

\* ---- generateDemoResponses: the three ladders (each reply is one glyph) ----
responsesByEmotion ==
    [positive |-> <<<<"positive_1_which_moment">>, <<"positive_2_reactions">>,
                    <<"positive_3_anything_else">>, <<"positive_4_propose_diary">>>>,
     negative |-> <<<<"negative_1_well_done">>, <<"negative_2_how_overcome">>,
                    <<"negative_3_any_support">>, <<"negative_4_propose_diary">>>>,
     neutral  |-> <<<<"neutral_1_how_was_it">>, <<"neutral_2_most_memorable">>,
                    <<"neutral_3_anything_else">>, <<"neutral_4_propose_diary">>>>]

\* mutant: the neutral ladder whatever the emotion
generateDemoResponses_Neutral(messageCount, emotionAnalysis) ==
    responsesByEmotion.neutral

generateDemoResponses(messageCount, emotionAnalysis) ==
    IF emotionAnalysis.type \in DOMAIN responsesByEmotion
    THEN responsesByEmotion[emotionAnalysis.type]
    ELSE responsesByEmotion.neutral

\* the catch block's own ladder of POST /api/chat/message
fallbackResponses ==
    <<<<"fallback_1_what_kind_of_day">>, <<"fallback_2_how_did_you_feel">>,
      <<"fallback_3_anything_else">>, <<"fallback_4_propose_diary">>>>

Min(a, b) == IF a < b THEN a ELSE b

\* ---- session objects ----
IsUser(msg) == msg.role = "user"

\* session.messages.filter(msg => msg.role === 'user')
UserMessages(messages) == SelectSeq(messages, IsUser)

\* a message object; its timestamp (new Date()) is written once and read by
\* no handler, and is left out
NewMessage(role, content) == [role |-> role, content |-> content]

\* session.messages.push(...) on the object at reference o
Push(h, o, msg) ==
    [h EXCEPT ![o].messages = Append(@, msg)]

\* Map.prototype.set
MapSet(m, k, v) ==
    [x \in (DOMAIN m) \cup {k} |-> IF x = k THEN v ELSE m[x]]

\* ---- extractMainTopic / getConversationContext ----
topicKeywords ==
    << <<"SERVE", "THING">>, <<"HOUSE", "CLAN">>, <<"FRIEND", "REACH">>,
       <<"EXERT", "STRONG">>, <<"GIST", "TASTE">>, <<"BUY", "i", "OBJECT">>,
       <<"EAT", "THING">>, <<"TRIP", "GO">>, <<"CARRY", "MOVE">>,
       <<"REFLECT", "PICTURE">> >>

RECURSIVE TopicFrom(_, _)
TopicFrom(i, content) ==
    IF i > Len(topicKeywords) THEN <<"general">>
    ELSE IF Includes(content, topicKeywords[i]) THEN topicKeywords[i]
    ELSE TopicFrom(i + 1, content)

extractMainTopic(content) == TopicFrom(1, content.chars)

\* messages.slice(-n)
SliceLast(messages, n) ==
    SubSeq(messages, IF Len(messages) > n THEN Len(messages) - n + 1 ELSE 1,
           Len(messages))

\* content.includes / message.toLowerCase exist on strings only: a user
\* message whose content is not a string makes getConversationContext throw
ContextThrows(messages) ==
    \E i \in DOMAIN SliceLast(messages, 4) :
        /\ IsUser(SliceLast(messages, 4)[i])
        /\ SliceLast(messages, 4)[i].content.type # "string"

getConversationContext(messages) ==
    LET recent == UserMessages(SliceLast(messages, 4))
    IN  [topics |-> [i \in DOMAIN recent |-> extractMainTopic(recent[i].content)],
         emotions |-> [i \in DOMAIN recent |-> analyzeUserEmotion(recent[i].content)],
         flowState |-> "continuing"]

\* `${value}` in a template literal, and Array.prototype.join's element text
\* (join prints undefined as the empty string, a template prints the word)
TemplateText(v) == IF v.type = "undefined" THEN <<"undefined">> ELSE v.chars
JoinText(v) == IF v.type = "undefined" THEN <<>> ELSE v.chars

\* array.map(msg => msg.content).join(' ')
RECURSIVE JoinContents(_)
JoinContents(messages) ==
    IF messages = <<>> THEN <<>>
    ELSE IF Len(messages) = 1 THEN JoinText(messages[1].content)
    ELSE JoinText(messages[1].content) \o <<" ">> \o JoinContents(Tail(messages))

\* mutant: the wrap-up is reached in the second cycle
generateAdaptivePrompt_Cycle2(messageCount, currentMessage, emotionAnalysis, context, session) ==
    LET questionType == ((messageCount - 1) % 3) + 1
        cycleCount == ((messageCount - 1) \div 3) + 1
        base == [current |-> currentMessage.chars, tone |-> emotionAnalysis.type,
                 previous |-> <<>>, history |-> <<>>]
    IN  base @@ [state |-> IF messageCount = 1 THEN "initial-question"
                           ELSE IF questionType = 1 THEN "deepen-detail"
                           ELSE IF questionType = 2 THEN "emotion-probe"
                           ELSE IF cycleCount >= 2 THEN "wrap-up"
                           ELSE "topic-broaden"]

\* ---- generateAdaptivePrompt: the instruction handed to the provider ----
generateAdaptivePrompt(messageCount, currentMessage, emotionAnalysis, context, session) ==
    LET questionType == ((messageCount - 1) % 3) + 1
        cycleCount == ((messageCount - 1) \div 3) + 1
        previousMessage ==
            IF Len(session.messages) >= 3
            THEN TemplateText(session.messages[Len(session.messages) - 2].content)
            ELSE <<>>
        base == [current |-> currentMessage.chars, tone |-> emotionAnalysis.type,
                 previous |-> <<>>, history |-> <<>>]
    IN  IF messageCount = 1
        THEN base @@ [state |-> "initial-question"]
        ELSE IF questionType = 1
        THEN [base EXCEPT !.previous = previousMessage] @@ [state |-> "deepen-detail"]
        ELSE IF questionType = 2
        THEN base @@ [state |-> "emotion-probe"]
        ELSE IF cycleCount >= 3
        THEN [base EXCEPT !.current = <<>>,
                          !.history = JoinContents(SliceLast(session.messages, 6))]
             @@ [state |-> "wrap-up"]
        ELSE base @@ [state |-> "topic-broaden"]

\* ---- inputs ----
\* request bodies' `message`: a text (with a positive keyword) and a missing
\* message
MessageInputs == {Str(<<"FUN", "shi", "i">>), Undefined}

\* request bodies' `sessionId`: Date.now().toString() is one-to-one, so an id
\* is written as the clock value it prints
SessionIdInputs == 0..MaxClock

\* what the text-generation provider may answer
GenReplies == {<<"q">>, <<" ", "q", " ">>}
GenDiaries == {<<>>, <<"d">>}

\* ---- fixed texts ----
Greeting == <<"greeting">>

\* the demo narrative of POST /api/chat/summarize, around the first 50
\* characters of the user's messages
DemoDiary(conversationText) ==
    <<"demo_narrative_head">> \o Substring(conversationText, 0, 50)
        \o <<".", ".", ".", "demo_narrative_tail">>

\* the catch block's narrative of POST /api/chat/summarize
fallbackDiary == <<"generic_narrative">>

\* Math.round((endTime - startTime) / 1000 / 60)
DurationMinutes(startTime, endTime) == ((endTime - startTime) + 30000) \div 60000

NoResponse == [op |-> "none", status |-> 0]

\* ---- initial state: after startServer ----
Init ==
    /\ now = 0
    /\ isGCPConfigured \in BOOLEAN
    /\ heap = <<>>
    /\ chatSessions = <<>>
    /\ inflight = EmptyBag
    /\ res = NoResponse
    /\ requests = 0
    /\ tempFiles = {}
    /\ input = None
    /\ output = None

\* the millisecond clock advances
Tick ==
    /\ now < MaxClock
    /\ now' = now + 1
    /\ res' = NoResponse
    /\ UNCHANGED <<isGCPConfigured, heap, chatSessions, inflight, requests, aside>>

\* the server accepts one more request
Accept ==
    /\ requests < MaxRequests
    /\ requests' = requests + 1

\* POST /api/chat/start
StartSession ==
    /\ Accept
    /\ LET sessionId == now
       IN  /\ heap' = Append(heap, [id |-> sessionId, messages |-> <<>>,
                                    startTime |-> now, status |-> "active",
                                    summary |-> None, endTime |-> None])
           /\ chatSessions' = MapSet(chatSessions, sessionId, Len(heap) + 1)
           /\ res' = [op |-> "start", status |-> 200, success |-> TRUE,
                      sessionId |-> sessionId, message |-> Greeting]
    /\ UNCHANGED <<now, isGCPConfigured, inflight, aside>>

\* mutant: the status is left at its default and the body reports success
NotFoundResponse_Ok(op) == [op |-> op, status |-> 200, success |-> TRUE]

\* res.status(400).json({ error: ... }) for a session id that is not stored
NotFoundResponse(op) ==
    [op |-> op, status |-> 400, error |-> "session_not_found"]

\* mutant: the ladder is indexed with the turn count, not the turn count - 1
MessageFallbackResponse_OffByOne(h, o) ==
    LET counted == Len(UserMessages(h[o].messages))
        messageCount == IF counted = 0 THEN 1 ELSE counted
        responseIndex == Min(messageCount, Len(fallbackResponses) - 1)
    IN  [op |-> "message", status |-> 200, success |-> TRUE,
         response |-> fallbackResponses[responseIndex + 1],
         messageCount |-> messageCount * 2,
         canSummarize |-> messageCount >= 3,
         mode |-> "demo_fallback_improved"]

\* the catch block of POST /api/chat/message, reading the session object at o
MessageFallbackResponse(h, o) ==
    LET counted == Len(UserMessages(h[o].messages))
        messageCount == IF counted = 0 THEN 1 ELSE counted
        responseIndex == Min(messageCount - 1, Len(fallbackResponses) - 1)
    IN  [op |-> "message", status |-> 200, success |-> TRUE,
         response |-> fallbackResponses[responseIndex + 1],
         messageCount |-> messageCount * 2,
         canSummarize |-> messageCount >= 3,
         mode |-> "demo_fallback_improved"]

\* mutant: the demo branch reports the number of the user's messages
MessageDemo_TurnCount(h, o, message) ==
    LET messageCount == Len(UserMessages(h[o].messages))
        emotionAnalysis == analyzeUserEmotion(message)
        adaptiveResponses == generateDemoResponses(messageCount, emotionAnalysis)
        responseIndex == Min(messageCount - 1, Len(adaptiveResponses) - 1)
        aiResponse == adaptiveResponses[responseIndex + 1]
    IN  /\ heap' = Push(h, o, NewMessage("assistant", Str(aiResponse)))
        /\ res' = [op |-> "message", status |-> 200, success |-> TRUE,
                   response |-> aiResponse,
                   messageCount |-> messageCount,
                   canSummarize |-> messageCount >= 3,
                   mode |-> "demo_improved"]
        /\ UNCHANGED inflight

\* the demo branch of POST /api/chat/message, after the user's message is in h
MessageDemo(h, o, message) ==
    LET messageCount == Len(UserMessages(h[o].messages))
        emotionAnalysis == analyzeUserEmotion(message)
        adaptiveResponses == generateDemoResponses(messageCount, emotionAnalysis)
        responseIndex == Min(messageCount - 1, Len(adaptiveResponses) - 1)
        aiResponse == adaptiveResponses[responseIndex + 1]
        h2 == Push(h, o, NewMessage("assistant", Str(aiResponse)))
    IN  /\ heap' = h2
        /\ res' = [op |-> "message", status |-> 200, success |-> TRUE,
                   response |-> aiResponse,
                   messageCount |-> Len(h2[o].messages),
                   canSummarize |-> messageCount >= 3,
                   mode |-> "demo_improved"]
        /\ UNCHANGED inflight

\* mutant: the live branch counts the user's messages before the push
MessageLive_StaleCount(h, o, message) ==
    /\ BagCardinality(inflight) < Cardinality(Clients)
    /\ heap' = h
    /\ inflight' = inflight (+) SetToBag({[op |-> "message",
                       session |-> o, message |-> message,
                       messageCount |-> Len(UserMessages(h[o].messages)) - 1,
                       prompt |-> "initial-question"]})
    /\ res' = NoResponse

\* the live branch of POST /api/chat/message up to `await generateContent`.
\* A suspended handler keeps the locals it reads again after the await
\* (session, messageCount; sessionId is session.id) and its request's message;
\* of the prompt it sent, the selected template is kept.
MessageLive(h, o, message) ==
    IF ContextThrows(h[o].messages)
    THEN /\ heap' = h
         /\ res' = MessageFallbackResponse(h, o)
         /\ UNCHANGED inflight
    ELSE LET messageCount == Len(UserMessages(h[o].messages))
             emotionAnalysis == analyzeUserEmotion(message)
             conversationContext == getConversationContext(h[o].messages)
             prompt == generateAdaptivePrompt(messageCount, message,
                           emotionAnalysis, conversationContext, h[o])
         IN  /\ BagCardinality(inflight) < Cardinality(Clients)
             /\ heap' = h
             /\ inflight' = inflight (+) SetToBag({[op |-> "message",
                                session |-> o, message |-> message,
                                messageCount |-> messageCount,
                                prompt |-> prompt.state]})
             /\ res' = NoResponse

\* POST /api/chat/message, from its entry to its response or first suspension
PostMessage(sessionId, message) ==
    /\ Accept
    /\ IF sessionId \notin DOMAIN chatSessions
       THEN /\ res' = NotFoundResponse("message")
            /\ UNCHANGED <<heap, inflight>>
       ELSE LET o == chatSessions[sessionId]
                h1 == Push(heap, o, NewMessage("user", message))
            IN  IF message.type # "string"
                THEN \* message.substring is not a function
                     /\ heap' = h1
                     /\ res' = MessageFallbackResponse(h1, o)
                     /\ UNCHANGED inflight
                ELSE IF isGCPConfigured
                THEN MessageLive(h1, o, message)
                ELSE MessageDemo(h1, o, message)
    /\ UNCHANGED <<now, isGCPConfigured, chatSessions, aside>>

\* the suspended handler r of POST /api/chat/message resumes with the reply
ReplyResolved(r, raw) ==
    /\ BagIn(r, inflight)
    /\ r.op = "message"
    /\ LET aiResponse == Trim(raw)
           h2 == Push(heap, r.session, NewMessage("assistant", Str(aiResponse)))
       IN  /\ heap' = h2
           /\ chatSessions' = MapSet(chatSessions, heap[r.session].id, r.session)
           /\ res' = [op |-> "message", status |-> 200, success |-> TRUE,
                      response |-> aiResponse,
                      messageCount |-> Len(h2[r.session].messages),
                      canSummarize |-> r.messageCount >= 3,
                      mode |-> "gcp_improved"]
    /\ inflight' = inflight (-) SetToBag({r})
    /\ UNCHANGED <<now, isGCPConfigured, requests, aside>>

\* mutant: the catch block records its reply in the history, as the demo
\* branch does
ReplyRejected_Records(r) ==
    /\ BagIn(r, inflight)
    /\ r.op = "message"
    /\ res' = MessageFallbackResponse(heap, r.session)
    /\ heap' = Push(heap, r.session, NewMessage("assistant", Str(res'.response)))
    /\ inflight' = inflight (-) SetToBag({r})
    /\ UNCHANGED <<now, isGCPConfigured, chatSessions, requests, aside>>

\* mutant: the catch block answers with the turn count the handler read
\* before it was suspended
ReplyRejected_OwnCount(r) ==
    /\ BagIn(r, inflight)
    /\ r.op = "message"
    /\ res' = [op |-> "message", status |-> 200, success |-> TRUE,
               response |-> fallbackResponses[Min(r.messageCount - 1, 3) + 1],
               messageCount |-> r.messageCount * 2,
               canSummarize |-> r.messageCount >= 3,
               mode |-> "demo_fallback_improved"]
    /\ inflight' = inflight (-) SetToBag({r})
    /\ UNCHANGED <<now, isGCPConfigured, heap, chatSessions, requests, aside>>

\* the generation call of the suspended handler r fails: the catch block
ReplyRejected(r) ==
    /\ BagIn(r, inflight)
    /\ r.op = "message"
    /\ res' = MessageFallbackResponse(heap, r.session)
    /\ inflight' = inflight (-) SetToBag({r})
    /\ UNCHANGED <<now, isGCPConfigured, heap, chatSessions, requests, aside>>

\* session.status / summary / endTime assignments of POST /api/chat/summarize
Complete(h, o, summaryDiary) ==
    [h EXCEPT ![o].status = "completed",
              ![o].summary = Some(summaryDiary),
              ![o].endTime = Some(now)]

SummarizeResponse(h, o, diary, conversationCount, mode) ==
    [op |-> "summarize", status |-> 200, success |-> TRUE, diary |-> diary,
     conversationCount |-> conversationCount,
     duration |-> DurationMinutes(h[o].startTime, h[o].endTime[1]),
     mode |-> mode]

\* the demo branch of POST /api/chat/summarize
SummarizeDemo(o) ==
    LET userMessages == UserMessages(heap[o].messages)
        conversationText == JoinContents(userMessages)
        summaryDiary == DemoDiary(conversationText)
        h2 == Complete(heap, o, summaryDiary)
    IN  /\ heap' = h2
        /\ res' = SummarizeResponse(h2, o, summaryDiary, Len(userMessages), "demo")
        /\ UNCHANGED inflight

\* POST /api/chat/summarize, from its entry to its response or suspension
Summarize(sessionId) ==
    /\ Accept
    /\ IF sessionId \notin DOMAIN chatSessions
       THEN /\ res' = NotFoundResponse("summarize")
            /\ UNCHANGED <<heap, inflight>>
       ELSE LET o == chatSessions[sessionId]
            IN  IF isGCPConfigured
                THEN /\ BagCardinality(inflight) < Cardinality(Clients)
                     /\ inflight' = inflight (+) SetToBag({[op |-> "summarize",
                            session |-> o, message |-> Undefined,
                            messageCount |-> Len(UserMessages(heap[o].messages)),
                            prompt |-> "summarize"]})
                     /\ res' = NoResponse
                     /\ UNCHANGED heap
                ELSE SummarizeDemo(o)
    /\ UNCHANGED <<now, isGCPConfigured, chatSessions, aside>>

\* the suspended handler r of POST /api/chat/summarize resumes with the diary
SummaryResolved(r, summaryDiary) ==
    /\ BagIn(r, inflight)
    /\ r.op = "summarize"
    /\ LET h2 == Complete(heap, r.session, summaryDiary)
       IN  /\ heap' = h2
           /\ res' = SummarizeResponse(h2, r.session, summaryDiary,
                                       r.messageCount, "gcp")
    /\ inflight' = inflight (-) SetToBag({r})
    /\ UNCHANGED <<now, isGCPConfigured, chatSessions, requests, aside>>

\* mutant: the catch block falls back to the demo branch's narrative
SummaryRejected_Demo(r) ==
    /\ BagIn(r, inflight)
    /\ r.op = "summarize"
    /\ LET o == chatSessions[heap[r.session].id]
           userMessages == UserMessages(heap[o].messages)
           summaryDiary == DemoDiary(JoinContents(userMessages))
           h2 == Complete(heap, o, summaryDiary)
       IN  /\ heap' = h2
           /\ res' = SummarizeResponse(h2, o, summaryDiary, Len(userMessages),
                                       "demo_fallback")
    /\ inflight' = inflight (-) SetToBag({r})
    /\ UNCHANGED <<now, isGCPConfigured, chatSessions, requests, aside>>

\* the generation call of the suspended handler r fails: the catch block
\* looks the session up again by id
SummaryRejected(r) ==
    /\ BagIn(r, inflight)
    /\ r.op = "summarize"
    /\ LET o == chatSessions[heap[r.session].id]
           userMessages == UserMessages(heap[o].messages)
           h2 == Complete(heap, o, fallbackDiary)
       IN  /\ heap' = h2
           /\ res' = SummarizeResponse(h2, o, fallbackDiary, Len(userMessages),
                                       "demo_fallback")
    /\ inflight' = inflight (-) SetToBag({r})
    /\ UNCHANGED <<now, isGCPConfigured, chatSessions, requests, aside>>

\* the ids of a Map in insertion order: the clock never runs backwards, so
\* insertion order is ascending id order
RECURSIVE Ascending(_)
Ascending(S) ==
    IF S = {} THEN <<>>
    ELSE LET m == CHOOSE x \in S : \A y \in S : x <= y
         IN  <<m>> \o Ascending(S \ {m})

\* one entry of GET /api/chat/sessions
SessionSummary(session) ==
    [id |-> session.id, status |-> session.status,
     messageCount |-> Len(session.messages),
     startTime |-> session.startTime, endTime |-> session.endTime,
     hasSummary |-> session.summary # None /\ session.summary[1] # <<>>]

\* GET /api/chat/sessions
ListSessions ==
    /\ Accept
    /\ LET ids == Ascending(DOMAIN chatSessions)
       IN  res' = [op |-> "sessions", status |-> 200,
                   sessions |-> [i \in DOMAIN ids |->
                                    SessionSummary(heap[chatSessions[ids[i]]])]]
    /\ UNCHANGED <<now, isGCPConfigured, heap, chatSessions, inflight, aside>>

Next ==
    \/ Tick
    \/ StartSession
    \/ \E sessionId \in SessionIdInputs, message \in MessageInputs :
           PostMessage(sessionId, message)
    \/ \E r \in BagToSet(inflight), raw \in GenReplies : ReplyResolved(r, raw)
    \/ \E r \in BagToSet(inflight) : ReplyRejected(r)
    \/ \E sessionId \in SessionIdInputs : Summarize(sessionId)
    \/ \E r \in BagToSet(inflight), raw \in GenDiaries : SummaryResolved(r, raw)
    \/ \E r \in BagToSet(inflight) : SummaryRejected(r)
    \/ ListSessions

Spec == Init /\ [][Next]_vars

\* ---- POST /api/speech-to-text ----
\* req.file.size of the uploads, in bytes: under 1 KB, exactly 1 KB, exactly
\* 500 KB, over 500 KB
FileSizes == {512, 1024, 512000, 614400}

\* what speechClient.recognize may answer: the results, each with the
\* transcript and confidence (in tenths) of its first alternative
RecognizeResponses ==
    { <<>>,
      << [transcript |-> <<"a">>, confidence |-> 9] >>,
      << [transcript |-> <<" ", "a", " ">>, confidence |-> 9] >>,
      << [transcript |-> <<"a", "b">>, confidence |-> 0] >>,
      << [transcript |-> <<"a">>, confidence |-> 9],
         [transcript |-> <<"b">>, confidence |-> 8] >> }

\* results.map(result => result.alternatives[0].transcript).join('\n')
RECURSIVE JoinLines(_)
JoinLines(results) ==
    IF results = <<>> THEN <<>>
    ELSE IF Len(results) = 1 THEN results[1].transcript
    ELSE results[1].transcript \o <<"\n">> \o JoinLines(Tail(results))

\* the three 400 responses of the demo mode, by req.file.size / 1024
DemoRejection(size) ==
    [op |-> "transcribe", status |-> 400, success |-> FALSE,
     error |-> IF size < 1024 THEN "too_short"
               ELSE IF size > 500 * 1024 THEN "too_long"
               ELSE "demo_mode_unavailable",
     mode |-> "demo"]

\* mutant: the demo mode answers without removing the upload
TranscribeDemo_Leak(file, unlinked, cleaned) ==
    /\ tempFiles' = tempFiles \cup {file.path}
    /\ res' = DemoRejection(file.size)

\* the demo mode of the handler, with the outer catch block behind it.
\* fs.unlinkSync either removes the file or throws (unlinked); when it throws,
\* the catch block finds the file and unlinks again (cleaned), and when that
\* throws too the handler ends without a response.
TranscribeDemo(file, unlinked, cleaned) ==
    IF unlinked
    THEN /\ tempFiles' = tempFiles \ {file.path}
         /\ res' = DemoRejection(file.size)
    ELSE IF cleaned
    THEN /\ tempFiles' = tempFiles \ {file.path}
         /\ res' = [op |-> "transcribe", status |-> 500,
                    error |-> "speech_to_text_failed"]
    ELSE /\ tempFiles' = tempFiles \cup {file.path}
         /\ res' = NoResponse

\* POST /api/speech-to-text, from upload.single('audio') to its response or
\* to `await speechClient.recognize`; multer names the file it stores, here
\* by the number of the request
Transcribe(file, unlinked, cleaned) ==
    /\ Accept
    /\ IF file = None
       THEN /\ res' = [op |-> "transcribe", status |-> 400,
                       error |-> "no_audio_file"]
            /\ UNCHANGED <<tempFiles, inflight>>
       ELSE LET stored == [path |-> requests', size |-> file[1]]
            IN  IF isGCPConfigured
                THEN /\ BagCardinality(inflight) < Cardinality(Clients)
                     /\ tempFiles' = tempFiles \cup {stored.path}
                     /\ inflight' = inflight (+)
                            SetToBag({[op |-> "transcribe", file |-> stored]})
                     /\ res' = NoResponse
                ELSE /\ TranscribeDemo(stored, unlinked, cleaned)
                     /\ UNCHANGED inflight
    /\ UNCHANGED <<now, isGCPConfigured, heap, chatSessions, input, output>>

\* the suspended handler r resumes with the provider's response; released
\* tells whether the unlinkSync of the success path removes the file
RecognizeResolved(r, response, released, unlinked, cleaned) ==
    /\ BagIn(r, inflight)
    /\ r.op = "transcribe"
    /\ LET transcription == JoinLines(response)
       IN  IF response # <<>> /\ Len(Trim(transcription)) >= 2 /\ released
           THEN /\ tempFiles' = tempFiles \ {r.file.path}
                /\ res' = [op |-> "transcribe", status |-> 200,
                           success |-> TRUE, transcript |-> transcription,
                           confidence |-> response[1].confidence,
                           mode |-> "gcp"]
           ELSE \* empty result, or unlinkSync threw: the inner catch block
                TranscribeDemo(r.file, unlinked, cleaned)
    /\ inflight' = inflight (-) SetToBag({r})
    /\ UNCHANGED <<now, isGCPConfigured, heap, chatSessions, requests,
                   input, output>>

\* the provider call of the suspended handler r fails: the inner catch block
\* logs and falls through to the demo mode
RecognizeRejected(r, unlinked, cleaned) ==
    /\ BagIn(r, inflight)
    /\ r.op = "transcribe"
    /\ TranscribeDemo(r.file, unlinked, cleaned)
    /\ inflight' = inflight (-) SetToBag({r})
    /\ UNCHANGED <<now, isGCPConfigured, heap, chatSessions, requests,
                   input, output>>

NextTranscribe ==
    \/ \E file \in {None} \cup {Some(size) : size \in FileSizes},
          unlinked \in BOOLEAN, cleaned \in BOOLEAN :
           Transcribe(file, unlinked, cleaned)
    \/ \E r \in BagToSet(inflight), response \in RecognizeResponses,
          released \in BOOLEAN, unlinked \in BOOLEAN, cleaned \in BOOLEAN :
           RecognizeResolved(r, response, released, unlinked, cleaned)
    \/ \E r \in BagToSet(inflight), unlinked \in BOOLEAN, cleaned \in BOOLEAN :
           RecognizeRejected(r, unlinked, cleaned)

SpecTranscribe == Init /\ [][NextTranscribe]_vars

\* ---- POST /api/generate-title ----
MaxPieces == 3      \* pieces a generated raw title is made of

\* the thirteen characters of the markup pattern, by name: asterisk,
\* underscore, backtick, hash, square brackets, parentheses, braces, bar,
\* backslash, tilde
MarkupGlyphs ==
    {"STAR", "UNDERSCORE", "BACKTICK", "HASH", "LBRACKET", "RBRACKET",
     "LPAREN", "RPAREN", "LBRACE", "RBRACE", "BAR", "BACKSLASH", "TILDE"}

\* the opening and the closing quotes of the two quote patterns: the ASCII
\* quote and the corner brackets, single and double
OpeningQuotes == {"QUOTE", "CORNER_OPEN", "WCORNER_OPEN"}
ClosingQuotes == {"QUOTE", "CORNER_CLOSE", "WCORNER_CLOSE"}

\* the label of the label pattern (TA-I-TO-RU in katakana), which an ASCII
\* or full-width colon may follow
TitleLabel == <<"TA_", "I_", "TO_", "RU_">>
Colons == {"COLON_WIDE", ":"}

\* a regular expression anchored with ^ on a literal
StartsWith(s, k) == Len(k) <= Len(s) /\ SubSeq(s, 1, Len(k)) = k

NotMarkup(c) == c \notin MarkupGlyphs
NotEllipsis(c) == c # "ELLIPSIS"
NotSpace(c) == ~IsSpace(c)

\* the two quote replacements: one opening quote at the start, one closing
\* quote at the end
StripQuotes(s) ==
    LET a == IF s # <<>> /\ Head(s) \in OpeningQuotes THEN Tail(s) ELSE s
    IN  IF a # <<>> /\ a[Len(a)] \in ClosingQuotes
        THEN SubSeq(a, 1, Len(a) - 1)
        ELSE a

\* the label replacement
StripLabel(s) ==
    IF StartsWith(s, TitleLabel)
    THEN LET rest == SubSeq(s, Len(TitleLabel) + 1, Len(s))
         IN  IF rest # <<>> /\ Head(rest) \in Colons THEN Tail(rest) ELSE rest
    ELSE s

\* the number of periods s begins with
RECURSIVE DotRun(_)
DotRun(s) == IF s # <<>> /\ Head(s) = "." THEN 1 + DotRun(Tail(s)) ELSE 0

\* mutant: a single period is removed as well
RemoveDotRuns_All(s) == SelectSeq(s, LAMBDA c : c # ".")

\* the replacement of every run of two or more periods by nothing: a single
\* period stays
RECURSIVE RemoveDotRuns(_)
RemoveDotRuns(s) ==
    IF s = <<>> THEN <<>>
    ELSE IF DotRun(s) >= 2 THEN RemoveDotRuns(SubSeq(s, DotRun(s) + 1, Len(s)))
    ELSE <<Head(s)>> \o RemoveDotRuns(Tail(s))

\* mutant: the sanitizer without its truncation
CleanTitle_Untruncated(raw) ==
    LET unlabelled == Trim(StripLabel(StripQuotes(SelectSeq(Trim(raw), NotMarkup))))
        undotted == SelectSeq(RemoveDotRuns(unlabelled), NotEllipsis)
    IN  SelectSeq(undotted, NotSpace)

\* the sanitizer of the live branch up to the truncation (lines 535-548)
CleanTitle(raw) ==
    LET trimmed == Trim(raw)
        unmarked == SelectSeq(trimmed, NotMarkup)
        unquoted == StripQuotes(unmarked)
        unlabelled == Trim(StripLabel(unquoted))
        undotted == SelectSeq(RemoveDotRuns(unlabelled), NotEllipsis)
        title == SelectSeq(undotted, NotSpace)
    IN  IF Len(title) > 12 THEN Substring(title, 0, 12) ELSE title

\* `${n}` of a non-negative integer
Digit(d) == <<"0", "1", "2", "3", "4", "5", "6", "7", "8", "9">>[d + 1]

RECURSIVE Decimal(_)
Decimal(n) ==
    IF n < 10 THEN <<Digit(n)>> ELSE Decimal(n \div 10) \o <<Digit(n % 10)>>

\* now.getMonth() + 1 and now.getDate(): every value, and the values the
\* handlers are run with (one and two digits each)
Months == 1..12
Days == 1..31
MonthInputs == {1, 12}
DayInputs == {1, 31}

\* the date title `${month}<MONTH>${day}<DAY>no` followed by the noun: the
\* diary noun in the live branch and the catch block, the record noun in the
\* demo mode
DateTitle(month, day, noun) ==
    Decimal(month) \o <<"MONTH">> \o Decimal(day) \o <<"DAY", "no">> \o noun

DiaryNoun == <<"DAY", "RECORD">>
RecordNoun == <<"RECORD", "LOG">>

\* the titles the live branch may return for a raw text: the cleaned text,
\* or the date title of whatever day it is when the text is too short
SanitizedTitles(raw) ==
    IF Len(CleanTitle(raw)) < 2
    THEN {DateTitle(month, day, DiaryNoun) :
              month \in MonthInputs, day \in DayInputs}
    ELSE {CleanTitle(raw)}

\* the keywords of the demo mode
titleKeywords ==
    << <<"FUN", "shi", "i">>, <<"GLAD", "shi", "i">>, <<"SAD", "shi", "i">>,
       <<"BUSY", "shi", "i">>, <<"FLAT", "HARMONY">>, <<"SPECIAL", "SEPARATE">>,
       <<"COMMON", "PASS">>, <<"NEW", "shi", "i">>, <<"BIG", "CHANGE">> >>

\* keywords.find(keyword => content.includes(keyword)), None if there is none
RECURSIVE FindKeyword(_, _)
FindKeyword(i, content) ==
    IF i > Len(titleKeywords) THEN None
    ELSE IF Includes(content, titleKeywords[i]) THEN Some(titleKeywords[i])
    ELSE FindKeyword(i + 1, content)

DemoTitles(content) ==
    IF FindKeyword(1, content) # None
    THEN {FindKeyword(1, content)[1] \o <<"ONE", "DAY">>}
    ELSE {DateTitle(month, day, RecordNoun) :
              month \in MonthInputs, day \in DayInputs}

\* request bodies' `content`
ContentInputs ==
    {Undefined, Str(<<>>), Str(<<"x">>), Str(<<"x", "NEW", "shi", "i">>),
     Str(<<"BIG", "CHANGE", "FUN", "shi", "i">>)}

\* the pieces of the raw titles the provider may answer with
LongRun == <<"y", "y", "y", "y", "y", "y">>
TitlePieces ==
    { <<"STAR">>, <<"QUOTE">>, <<"CORNER_OPEN">>, TitleLabel, <<":">>, <<".">>,
      <<"ELLIPSIS">>, <<" ">>, <<"x">>, LongRun }

RECURSIVE Concat(_)
Concat(pieces) ==
    IF pieces = <<>> THEN <<>> ELSE Head(pieces) \o Concat(Tail(pieces))

RawTitles ==
    {Concat(pieces) : pieces \in UNION {[1..n -> TitlePieces] : n \in 0..MaxPieces}}

TitleResponse(title, mode) ==
    [op |-> "title", status |-> 200, success |-> TRUE, title |-> title,
     mode |-> mode]

\* the catch block: the date title
TitleFallback ==
    \E month \in MonthInputs, day \in DayInputs :
        res' = TitleResponse(DateTitle(month, day, DiaryNoun), "fallback")

\* POST /api/generate-title, from its entry to its response or suspension.
\* The handler shares nothing with other requests: one is followed at a time.
GenerateTitle(content) ==
    /\ Accept
    /\ IF content.type # "string" \/ content.chars = <<>>
       THEN /\ res' = [op |-> "title", status |-> 400, success |-> FALSE,
                       error |-> "no_content"]
            /\ UNCHANGED inflight
       ELSE IF isGCPConfigured
       THEN /\ inflight = EmptyBag
            /\ inflight' = SetToBag({[op |-> "title"]})
            /\ res' = NoResponse
       ELSE /\ \E title \in DemoTitles(content.chars) :
                   res' = TitleResponse(title, "demo")
            /\ UNCHANGED inflight
    /\ UNCHANGED <<now, isGCPConfigured, heap, chatSessions, aside>>

\* the suspended handler r resumes with the provider's text; a text that is
\* not a string makes .trim() throw
TitleResolved(r, text) ==
    /\ BagIn(r, inflight)
    /\ r.op = "title"
    /\ IF text.type = "string"
       THEN \E title \in SanitizedTitles(text.chars) :
                res' = TitleResponse(title, "gcp")
       ELSE TitleFallback
    /\ inflight' = inflight (-) SetToBag({r})
    /\ UNCHANGED <<now, isGCPConfigured, heap, chatSessions, requests, aside>>

\* the provider call of the suspended handler r fails
TitleRejected(r) ==
    /\ BagIn(r, inflight)
    /\ r.op = "title"
    /\ TitleFallback
    /\ inflight' = inflight (-) SetToBag({r})
    /\ UNCHANGED <<now, isGCPConfigured, heap, chatSessions, requests, aside>>

NextTitle ==
    \/ \E content \in ContentInputs : GenerateTitle(content)
    \/ \E r \in BagToSet(inflight),
          text \in {Undefined} \cup {Str(raw) : raw \in RawTitles} :
           TitleResolved(r, text)
    \/ \E r \in BagToSet(inflight) : TitleRejected(r)

SpecTitle == Init /\ [][NextTitle]_vars

\* the state of the server in the specifications of a single function
Idle ==
    /\ now = 0
    /\ isGCPConfigured = TRUE
    /\ heap = <<>>
    /\ chatSessions = <<>>
    /\ inflight = EmptyBag
    /\ res = NoResponse
    /\ requests = 0
    /\ tempFiles = {}

\* the sanitizer alone: a raw title is drawn, then sanitized
InitSanitizer ==
    /\ Idle
    /\ input \in {Some(raw) : raw \in RawTitles}
    /\ output = None

ApplySanitizer ==
    /\ output = None
    /\ \E title \in SanitizedTitles(input[1]) : output' = Some(title)
    /\ UNCHANGED <<now, isGCPConfigured, heap, chatSessions, inflight, res,
                   requests, tempFiles, input>>

SpecSanitizer == InitSanitizer /\ [][ApplySanitizer]_vars

\* ---- the functions on their own: inputs are drawn, then applied ----
MaxTextLen == 4     \* glyphs of a text handed to analyzeUserEmotion

\* the glyphs of one keyword of each emotion, and one of no keyword
EmotionGlyphs == {"LUCK", "se", "BITTER", "i", "COMMON", "PASS", "x"}

EmotionTexts == UNION {[1..n -> EmotionGlyphs] : n \in 0..MaxTextLen}

InitEmotion ==
    /\ Idle
    /\ input \in {Some(Str(text)) : text \in EmotionTexts}
    /\ output = None

ApplyEmotion ==
    /\ output = None
    /\ output' = Some(analyzeUserEmotion(input[1]))
    /\ UNCHANGED <<now, isGCPConfigured, heap, chatSessions, inflight, res,
                   requests, tempFiles, input>>

SpecEmotion == InitEmotion /\ [][ApplyEmotion]_vars

\* ---- generateAdaptivePrompt on its own ----
MaxTurnCount == 12  \* largest messageCount handed to generateAdaptivePrompt

\* session.messages of a live session after its first `turns` turns were
\* answered and the user's message of the next turn was pushed
RECURSIVE LiveHistory(_, _)
LiveHistory(turns, message) ==
    IF turns = 0 THEN <<NewMessage("user", message)>>
    ELSE <<NewMessage("user", Str(<<"x">>)), NewMessage("assistant", Str(<<"q">>))>>
             \o LiveHistory(turns - 1, message)

PromptMessages ==
    {Str(<<"x">>), Str(<<"FUN", "shi", "i">>), Str(<<"BITTER", "i">>)}

PromptInputs ==
    {[messageCount |-> n, currentMessage |-> message,
      emotionAnalysis |-> analyzeUserEmotion(message),
      session |-> [id |-> 0, messages |-> LiveHistory(turns, message),
                   startTime |-> 0, status |-> "active",
                   summary |-> None, endTime |-> None]] :
        n \in 1..MaxTurnCount, message \in PromptMessages, turns \in 0..2}

InitPrompt ==
    /\ Idle
    /\ input \in {Some(args) : args \in PromptInputs}
    /\ output = None

ApplyPrompt ==
    /\ output = None
    /\ output' = Some(generateAdaptivePrompt(input[1].messageCount,
                          input[1].currentMessage, input[1].emotionAnalysis,
                          getConversationContext(input[1].session.messages),
                          input[1].session))
    /\ UNCHANGED <<now, isGCPConfigured, heap, chatSessions, inflight, res,
                   requests, tempFiles, input>>

SpecPrompt == InitPrompt /\ [][ApplyPrompt]_vars

\* ---- the demo mode in a session that is already under way ----
MaxPriorTurns == 3  \* turns of the session before the first step

\* session.messages after `turns` demo turns in which the user said a text
\* without a keyword
RECURSIVE DemoHistory(_)
DemoHistory(turns) ==
    IF turns = 0 THEN <<>>
    ELSE DemoHistory(turns - 1)
             \o <<NewMessage("user", Str(<<"x">>)),
                  NewMessage("assistant",
                      Str(responsesByEmotion.neutral[Min(turns - 1, 3) + 1]))>>

\* request bodies' `message` in the demo mode: one text of each emotion and
\* a missing message
DemoMessageInputs ==
    {Str(<<"FUN", "shi", "i">>), Str(<<"BITTER", "i">>),
     Str(<<"COMMON", "PASS">>), Undefined}

\* the demo server with one session, started at time 0, after some turns;
\* requests are counted from here
InitDemo ==
    /\ now = 0
    /\ isGCPConfigured = FALSE
    /\ \E turns \in 0..MaxPriorTurns :
           heap = <<[id |-> 0, messages |-> DemoHistory(turns),
                     startTime |-> 0, status |-> "active",
                     summary |-> None, endTime |-> None]>>
    /\ chatSessions = MapSet(<<>>, 0, 1)
    /\ inflight = EmptyBag
    /\ res = NoResponse
    /\ requests = 0
    /\ tempFiles = {}
    /\ input = None
    /\ output = None

NextDemo ==
    \E sessionId \in SessionIdInputs, message \in DemoMessageInputs :
        PostMessage(sessionId, message)

SpecDemo == InitDemo /\ [][NextDemo]_vars

\* ---- helpers of the properties ----
IsPrefix(a, b) == Len(a) <= Len(b) /\ SubSeq(b, 1, Len(a)) = a

\* the session object stored under id, in the state before / after a step
Stored(id) == heap[chatSessions[id]]
StoredAfter(id) == heap'[chatSessions'[id]]

TurnCount(session) == Len(UserMessages(session.messages))

\* C1: for every stored session id, every step leaves the id stored and the
\* message list under it a prefix of the list after the step (append-only;
\* hence the number of user messages under the id never decreases).
C1_AppendOnly ==
    [][\A id \in DOMAIN chatSessions :
           /\ id \in DOMAIN chatSessions'
           /\ IsPrefix(Stored(id).messages, StoredAfter(id).messages)
           /\ TurnCount(Stored(id)) <= TurnCount(StoredAfter(id))]_vars

\* C2: every Start session step takes an id that is not stored yet, so the
\* store grows by one session and every session already stored is kept as it
\* is (the number of stored sessions equals the number of Start calls, which
\* is the number of session objects created).
C2_StartIsFresh ==
    [][StartSession =>
           /\ res'.sessionId \notin DOMAIN chatSessions
           /\ Cardinality(DOMAIN chatSessions') = Len(heap')
           /\ \A id \in DOMAIN chatSessions :
                  /\ chatSessions'[id] = chatSessions[id]
                  /\ StoredAfter(id) = Stored(id)]_vars

\* C3: a Post message or Summarize step whose session id is not stored sends
\* the 400 input-error response and leaves the store, every session object
\* and the suspended handlers as they are.
C3_UnknownSessionRejected ==
    [][\A sessionId \in SessionIdInputs :
           sessionId \notin DOMAIN chatSessions =>
               /\ \A message \in MessageInputs :
                      PostMessage(sessionId, message) =>
                          /\ res'.status = 400
                          /\ "error" \in DOMAIN res'
                          /\ <<heap, chatSessions, inflight>>' =
                                 <<heap, chatSessions, inflight>>
               /\ Summarize(sessionId) =>
                      /\ res'.status = 400
                      /\ "error" \in DOMAIN res'
                      /\ <<heap, chatSessions, inflight>>' =
                             <<heap, chatSessions, inflight>>]_vars

\* C3 witness: a request for an unknown id was rejected while another
\* session, with a recorded message, is stored.
C3_Witness ==
    /\ res.op = "summarize"
    /\ res.status = 400
    /\ \E id \in DOMAIN chatSessions : Stored(id).messages # <<>>

AllTextual(session) ==
    \A i \in DOMAIN session.messages : session.messages[i].content.type = "string"

C5_FailedReplyLeavesUserMessageOnly ==
    [][/\ \A sessionId \in DOMAIN chatSessions, message \in MessageInputs :
              (isGCPConfigured /\ message.type = "string"
                  /\ PostMessage(sessionId, message)) =>
                  /\ heap' = Push(heap, chatSessions[sessionId],
                                  [role |-> "user", content |-> message])
                  /\ chatSessions' = chatSessions
       /\ \A r \in BagToSet(inflight) :
              ReplyRejected(r) =>
                  /\ heap' = heap
                  /\ chatSessions' = chatSessions]_vars

\* C5 witness: the first turn of a session failed in the provider: the
\* history holds the user's text and nothing else, the session is active.
C5_Witness ==
    /\ isGCPConfigured
    /\ res.op = "message"
    /\ res.status = 200
    /\ res.mode = "demo_fallback_improved"
    /\ \E id \in DOMAIN chatSessions :
           /\ Len(Stored(id).messages) = 1
           /\ AllTextual(Stored(id))
           /\ Stored(id).status = "active"
           /\ Stored(id).summary = None

\* C6: a Post message for a stored session id whose message is not a text is
\* answered with a 4xx status and an error, and appends nothing.
C6_InvalidMessageRejected ==
    [][\A sessionId \in DOMAIN chatSessions, message \in MessageInputs :
           (message.type # "string" /\ PostMessage(sessionId, message)) =>
               /\ res'.status >= 400
               /\ res'.status < 500
               /\ "error" \in DOMAIN res'
               /\ heap' = heap]_vars

\* the session stored under id is completed with the diary just returned
CompletedWith(id) ==
    /\ StoredAfter(id).status = "completed"
    /\ StoredAfter(id).summary = Some(res'.diary)
    /\ StoredAfter(id).endTime # None

\* C7: when a Summarize of a stored session completes on any path (demo, live
\* success, generation failure), the session stored under its id is
\* completed, its summary is the diary returned, and its end time is set.
C7_SummarizeCompletes ==
    [][/\ \A sessionId \in DOMAIN chatSessions :
              (Summarize(sessionId) /\ res' # NoResponse) =>
                  CompletedWith(sessionId)
       /\ \A r \in BagToSet(inflight) :
              /\ (\E raw \in GenDiaries : SummaryResolved(r, raw)) =>
                     CompletedWith(heap[r.session].id)
              /\ SummaryRejected(r) => CompletedWith(heap[r.session].id)]_vars

\* C8: when the generation call of a Summarize fails, the response is a
\* success response whose diary is the fixed generic narrative; that text is
\* stored as the summary of the session under the id, and it differs from the
\* demo narrative built from the session's user messages.
C8_RejectedSummaryIsGeneric ==
    [][\A r \in BagToSet(inflight) :
           SummaryRejected(r) =>
               LET id == heap[r.session].id
               IN  /\ res'.status = 200
                   /\ res'.success
                   /\ "error" \notin DOMAIN res'
                   /\ res'.diary = <<"generic_narrative">>
                   /\ StoredAfter(id).summary = Some(<<"generic_narrative">>)
                   /\ StoredAfter(id).status = "completed"
                   /\ res'.diary #
                          DemoDiary(JoinContents(UserMessages(Stored(id).messages)))]_vars

\* C8 witness: a Summarize of a session with a recorded user text was
\* answered from the catch block.
C8_Witness ==
    /\ res.op = "summarize"
    /\ res.status = 200
    /\ res.mode = "demo_fallback"
    /\ res.conversationCount >= 1
    /\ \E id \in DOMAIN chatSessions :
           /\ Stored(id).summary = Some(fallbackDiary)
           /\ TurnCount(Stored(id)) >= 1

\* C9: once the status stored under a session id is completed, no step makes
\* the status under that id anything else.
C9_CompletedStaysCompleted ==
    [][\A id \in DOMAIN chatSessions :
           Stored(id).status = "completed" =>
               /\ id \in DOMAIN chatSessions'
               /\ StoredAfter(id).status = "completed"]_vars

LiveTags == {"gcp_improved", "gcp"}
DemoTags == {"demo_improved", "demo"}
ErrorTags == {"demo_fallback_improved", "demo_fallback"}

\* C10: every success response of Post message and Summarize carries the tag
\* of its path: the live tag exactly when the provider is configured and the
\* generation call succeeded, the demo tag exactly when the provider is not
\* configured, the error tag exactly when the generation call failed; the
\* three tags are pairwise distinct.
C10_ModeTagIdentifiesPath ==
    [][(res'.op \in {"message", "summarize"} /\ res'.status = 200) =>
           LET succeeded ==
                   \E r \in BagToSet(inflight) :
                       \/ \E raw \in GenReplies : ReplyResolved(r, raw)
                       \/ \E raw \in GenDiaries : SummaryResolved(r, raw)
               failed ==
                   \E r \in BagToSet(inflight) :
                       ReplyRejected(r) \/ SummaryRejected(r)
           IN  /\ res'.mode \in LiveTags <=> (isGCPConfigured /\ succeeded)
               /\ res'.mode \in DemoTags <=> ~isGCPConfigured
               /\ res'.mode \in ErrorTags <=> failed
               /\ LiveTags \cap DemoTags = {}
               /\ LiveTags \cap ErrorTags = {}
               /\ DemoTags \cap ErrorTags = {}]_vars

\* the steps that send the response of a Post message for the session object
\* o: the entry step when it answers at once, or the resumption of a
\* suspended handler
MessageAnswered(o) ==
    \/ \E sessionId \in DOMAIN chatSessions, message \in MessageInputs :
           /\ chatSessions[sessionId] = o
           /\ PostMessage(sessionId, message)
           /\ res' # NoResponse
    \/ \E r \in BagToSet(inflight) :
           /\ r.session = o
           /\ \/ \E raw \in GenReplies : ReplyResolved(r, raw)
              \/ ReplyRejected(r)

\* C11 as stated: on every path the count returned by a successful Post
\* message is the number of user-role messages recorded in the session once
\* this request's message is appended.
C11_CountIsTurnCount ==
    [][\A o \in DOMAIN heap :
           MessageAnswered(o) => res'.messageCount = TurnCount(heap'[o])]_vars

\* C11 amended: on the live and demo paths the count returned is the number
\* of all messages (both roles) of the session once the reply is appended; on
\* the error-fallback path it is twice the number of user-role messages of
\* the session when the failure is handled; on every path it is greater than
\* the turn count.
C11_CountIsHistoryLength ==
    [][\A o \in DOMAIN heap :
           MessageAnswered(o) =>
               /\ res'.status = 200
               /\ res'.mode \in {"gcp_improved", "demo_improved"} =>
                      res'.messageCount = Len(heap'[o].messages)
               /\ res'.mode = "demo_fallback_improved" =>
                      res'.messageCount = 2 * TurnCount(heap'[o])
               /\ res'.messageCount > TurnCount(heap'[o])]_vars

\* C11 witness: a live reply in a session whose first turn failed: three
\* messages are recorded, two of them the user's, and the count returned is 3.
C11_Witness ==
    /\ res.op = "message"
    /\ res.status = 200
    /\ res.mode = "gcp_improved"
    /\ res.messageCount = 3
    /\ \E o \in DOMAIN heap :
           /\ Len(heap[o].messages) = 3
           /\ TurnCount(heap[o]) = 2
           /\ AllTextual(heap[o])

\* the steps that send the response of a Transcribe audio request whose
\* upload was stored at path
TranscribeAnswered(path) ==
    /\ res' # NoResponse
    /\ \/ /\ path = requests + 1
          /\ \E size \in FileSizes, unlinked \in BOOLEAN, cleaned \in BOOLEAN :
                 Transcribe(Some(size), unlinked, cleaned)
       \/ \E r \in BagToSet(inflight), unlinked \in BOOLEAN, cleaned \in BOOLEAN :
              /\ r.file.path = path
              /\ \/ RecognizeRejected(r, unlinked, cleaned)
                 \/ \E response \in RecognizeResponses, released \in BOOLEAN :
                        RecognizeResolved(r, response, released, unlinked, cleaned)

\* C12: whenever the response of a Transcribe audio request that carries a
\* file is sent (provider success, provider failure then the demo response,
\* demo rejection for any size, unexpected error), the uploaded file of that
\* request no longer exists.
C12_UploadRemovedOnResponse ==
    [][\A path \in 1..MaxRequests :
           TranscribeAnswered(path) => path \notin tempFiles']_vars

\* C12 witness: the demo mode failed to unlink, the outer catch block removed
\* the file and answered 500; no upload is left.
C12_Witness ==
    /\ res.op = "transcribe"
    /\ res.status = 500
    /\ requests >= 1
    /\ tempFiles = {}

\* C13: when the provider call of a Transcribe audio request fails, the
\* response sent is not an error response: its status is below 400 and it
\* reports success.
C13_ProviderFailureRecovered ==
    [][\A r \in BagToSet(inflight) :
           (/\ \E unlinked \in BOOLEAN, cleaned \in BOOLEAN :
                   RecognizeRejected(r, unlinked, cleaned)
            /\ res' # NoResponse) =>
               /\ res'.status < 400
               /\ res'.success]_vars

\* the forbidden markup characters: * _ ` # [ ] ( ) { } | \ ~
ForbiddenMarkup ==
    {"STAR", "UNDERSCORE", "BACKTICK", "HASH", "LBRACKET", "RBRACKET",
     "LPAREN", "RPAREN", "LBRACE", "RBRACE", "BAR", "BACKSLASH", "TILDE"}

WellFormedTitle(title) ==
    /\ Len(title) >= 2
    /\ Len(title) <= 12
    /\ \A i \in DOMAIN title : title[i] \notin ForbiddenMarkup

\* C14: every title returned by Generate title (live, demo, error fallback)
\* has 2 to 12 characters and no forbidden markup character; so has the date
\* title of every month and day, with either noun.
C14_TitleWellFormed ==
    /\ (res.op = "title" /\ res.status = 200) => WellFormedTitle(res.title)
    /\ \A month \in Months, day \in Days :
           /\ WellFormedTitle(DateTitle(month, day, DiaryNoun))
           /\ WellFormedTitle(DateTitle(month, day, RecordNoun))

\* C14 witness: a live title of 12 characters that only the truncation of a
\* 13-character text produces.
C14_Witness ==
    /\ res.op = "title"
    /\ res.status = 200
    /\ res.mode = "gcp"
    /\ res.title = <<"x", "y", "y", "y", "y", "y", "y", "y", "y", "y", "y", "y">>

AnyQuote ==
    {"QUOTE", "CORNER_OPEN", "WCORNER_OPEN", "CORNER_CLOSE", "WCORNER_CLOSE"}

\* a raw title that is clean in the sense of C19: 2 to 12 characters, no
\* forbidden markup, no whitespace, no ellipsis, no run of periods, no quote
\* at either end
CleanInput(raw) ==
    /\ Len(raw) >= 2
    /\ Len(raw) <= 12
    /\ \A i \in DOMAIN raw : raw[i] \notin ForbiddenMarkup \cup {" ", "\n", "ELLIPSIS"}
    /\ \A i \in 1..(Len(raw) - 1) : ~(raw[i] = "." /\ raw[i + 1] = ".")
    /\ raw[1] \notin AnyQuote
    /\ raw[Len(raw)] \notin AnyQuote

BeginsWithLabel(raw) ==
    Len(raw) >= 4 /\ SubSeq(raw, 1, 4) = <<"TA_", "I_", "TO_", "RU_">>

\* C19 as stated: the sanitizer returns every clean raw title unchanged.
C19_CleanInputUnchanged ==
    (output # None /\ CleanInput(input[1])) => output = input

\* C19 amended: the sanitizer returns unchanged every clean raw title that
\* does not begin with the title label, and sanitizing the result again
\* returns it once more.
C19_CleanUnlabelledInputUnchanged ==
    (/\ output # None
     /\ CleanInput(input[1])
     /\ ~BeginsWithLabel(input[1])) =>
        /\ output = input
        /\ SanitizedTitles(output[1]) = {output[1]}

\* C19 witness: a clean title of three characters with a single period and a
\* colon was sanitized and came back as it was.
C19_Witness ==
    /\ input = Some(<<"x", ".", ":">>)
    /\ output = input

\* the text contains one of the keywords
ContainsAny(text, keywords) ==
    \E j \in DOMAIN keywords, i \in 1..Len(text) :
        /\ i + Len(keywords[j]) - 1 <= Len(text)
        /\ \A k \in 1..Len(keywords[j]) : text[i + k - 1] = keywords[j][k]

\* C18: the classifier returns positive with confidence 0.8 for a text with a
\* positive keyword (whatever else it contains), else negative with 0.8 for a
\* text with a negative keyword, else neutral with 0.8 for a text with a
\* neutral keyword, else neutral with 0.5.
C18_ClassifierPriority ==
    output # None =>
        LET text == input[1].chars
        IN  /\ ContainsAny(text, PositiveKeywords) =>
                   output[1] = [type |-> "positive", confidence |-> 8]
            /\ (~ContainsAny(text, PositiveKeywords)
                    /\ ContainsAny(text, NegativeKeywords)) =>
                   output[1] = [type |-> "negative", confidence |-> 8]
            /\ (~ContainsAny(text, PositiveKeywords)
                    /\ ~ContainsAny(text, NegativeKeywords)
                    /\ ContainsAny(text, NeutralKeywords)) =>
                   output[1] = [type |-> "neutral", confidence |-> 8]
            /\ (~ContainsAny(text, PositiveKeywords)
                    /\ ~ContainsAny(text, NegativeKeywords)
                    /\ ~ContainsAny(text, NeutralKeywords)) =>
                   output[1] = [type |-> "neutral", confidence |-> 5]

\* C18 witness: a text with a negative keyword followed by a positive one was
\* classified positive.
C18_Witness ==
    /\ input = Some(Str(<<"BITTER", "i", "LUCK", "se">>))
    /\ output = Some([type |-> "positive", confidence |-> 8])

\* C15: in demo mode the reply to a Post message whose message is a text is
\* the entry min(n-1, 3) of the four-entry ladder of the emotion type
\* classified from the message, n being the turn count after the append; for
\* n >= 4 it is the ladder's last entry; it is a function of n and the type.
C15_DemoReplyIsLadderEntry ==
    [][\A sessionId \in DOMAIN chatSessions, message \in DemoMessageInputs :
           (/\ ~isGCPConfigured
            /\ message.type = "string"
            /\ PostMessage(sessionId, message)) =>
               LET n == TurnCount(Stored(sessionId)) + 1
                   type == analyzeUserEmotion(message).type
                   ladder == responsesByEmotion[type]
               IN  /\ Len(ladder) = 4
                   /\ n >= 1
                   /\ res'.mode = "demo_improved"
                   /\ res'.response = ladder[Min(n - 1, 3) + 1]
                   /\ n >= 4 => res'.response = ladder[4]]_vars

\* C15 witness: the sixth turn of a demo session was answered with the last
\* entry of the negative ladder.
C15_Witness ==
    /\ ~isGCPConfigured
    /\ res.op = "message"
    /\ res.status = 200
    /\ res.mode = "demo_improved"
    /\ res.response = <<"negative_4_propose_diary">>
    /\ TurnCount(heap[1]) = 6

\* the state the claim's table selects for a turn count
SelectedState(turnCount) ==
    LET questionType == ((turnCount - 1) % 3) + 1
        cycleCount == ((turnCount - 1) \div 3) + 1
    IN  CASE turnCount = 1 -> "initial-question"
          [] turnCount # 1 /\ questionType = 1 -> "deepen-detail"
          [] turnCount # 1 /\ questionType = 2 -> "emotion-probe"
          [] questionType = 3 /\ cycleCount < 3 -> "topic-broaden"
          [] questionType = 3 /\ cycleCount >= 3 -> "wrap-up"

\* C16: the prompt selector picks the state of the claim's table for every
\* turn count, whatever the message, the emotion and the session; wrap-up is
\* selected at turn count 9 and at no smaller one, and from 9 on no turn
\* count selects topic-broaden.
C16_StateFromTurnCount ==
    output # None =>
        LET turnCount == input[1].messageCount
            state == output[1].state
        IN  /\ state = SelectedState(turnCount)
            /\ state = "wrap-up" => turnCount >= 9
            /\ turnCount = 9 => state = "wrap-up"
            /\ turnCount >= 9 => state # "topic-broaden"

\* C16 witness: the selector was applied to turn count 9 and chose wrap-up.
C16_Witness ==
    /\ output # None
    /\ input[1].messageCount = 9
    /\ output[1].state = "wrap-up"

\* C17: two Post message requests of one session can select their replies
\* with the same turn count. When the generation call of a handler fails
\* while a later handler of the same session is suspended, the reply is
\* selected with the session's turn count at that moment, which is at least
\* the later handler's and greater than the handler's own; and a failure that
\* directly follows another failure in the same session repeats its reply.
C17_FailedRepliesShareTurnCount ==
    [][\A r \in BagToSet(inflight) :
           ReplyRejected(r) =>
               LET n == TurnCount(heap[r.session])
               IN  /\ res'.messageCount = 2 * n
                   /\ \A later \in BagToSet(inflight) :
                          (/\ later.op = "message"
                           /\ later.session = r.session
                           /\ later.messageCount > r.messageCount) =>
                              /\ n >= later.messageCount
                              /\ n > r.messageCount
                   /\ (/\ Len(heap) = 1
                       /\ AllTextual(heap[1])
                       /\ res.op = "message"
                       /\ res.status = 200
                       /\ res.mode = "demo_fallback_improved") =>
                          /\ res'.response = res.response
                          /\ res'.messageCount = res.messageCount]_vars

\* C17 witness: in a session with two user texts, the handler of the first
\* was answered from the fallback ladder with turn count 2 while the handler
\* of the second, which selected its prompt with turn count 2, is suspended.
C17_Witness ==
    /\ Len(heap) = 1
    /\ AllTextual(heap[1])
    /\ TurnCount(heap[1]) = 2
    /\ res.op = "message"
    /\ res.status = 200
    /\ res.mode = "demo_fallback_improved"
    /\ res.messageCount = 4
    /\ res.response = fallbackResponses[2]
    /\ \E later \in BagToSet(inflight) :
           /\ later.op = "message"
           /\ later.session = 1
           /\ later.messageCount = 2
           /\ later.prompt = "emotion-probe"

\* the handlers of Post message that are suspended on the session object o
Suspended(bag, o) ==
    {r \in BagToSet(bag) : r.op = "message" /\ r.session = o}

\* C20: on the paths without error the append of the user's message and the
\* reading of the turn count are one step: the k-th user message of a session
\* object is handled with turn count k (the prompt of the live branch, the
\* reply of the demo branch), the turn count of a session object never
\* decreases, and no two suspended handlers of one session object hold the
\* same turn count.
C20_AppendAndCountAtomic ==
    [][/\ \A o \in DOMAIN heap :
              /\ IsPrefix(heap[o].messages, heap'[o].messages)
              /\ \A r1, r2 \in Suspended(inflight, o) :
                     /\ CopiesIn(r1, inflight) = 1
                     /\ r1 # r2 => r1.messageCount # r2.messageCount
       /\ \A sessionId \in DOMAIN chatSessions, message \in MessageInputs :
              (message.type = "string" /\ PostMessage(sessionId, message)) =>
                  LET o == chatSessions[sessionId]
                      k == TurnCount(heap[o]) + 1
                  IN  /\ SelectSeq(heap'[o].messages, IsUser)[k].content = message
                      /\ isGCPConfigured /\ res' = NoResponse =>
                             \E r \in Suspended(inflight', o) :
                                 /\ r \notin Suspended(inflight, o)
                                 /\ r.messageCount = k
                                 /\ r.message = message
                      /\ ~isGCPConfigured =>
                             /\ res'.canSummarize = (k >= 3)
                             /\ res'.response =
                                    responsesByEmotion[analyzeUserEmotion(message).type]
                                        [Min(k - 1, 3) + 1]]_vars

\* C20 witness: two handlers are suspended on one session, the first with
\* turn count 1 and the second with turn count 2.
C20_Witness ==
    \E r1, r2 \in BagToSet(inflight) :
        /\ r1.op = "message"
        /\ r2.op = "message"
        /\ r1.session = r2.session
        /\ r1.messageCount = 1
        /\ r2.messageCount = 2
        /\ TurnCount(heap[r1.session]) = 2

\* C21: in every state, in the history of every session, every assistant
\* message is immediately preceded by a user message: the first message is
\* not the assistant's and no two assistant messages follow each other.
C21_NoConsecutiveAssistant ==
    \A o \in DOMAIN heap :
        \A i \in DOMAIN heap[o].messages :
            heap[o].messages[i].role = "assistant" =>
                /\ i > 1
                /\ heap[o].messages[i - 1].role = "user"

\* C22: after every step, every stored session is completed exactly when its
\* end time is set and exactly when List sessions reports hasSummary for it,
\* an active session has neither summary nor end time, and a List sessions
\* step changes no session.
C22_CompletedIffEndTimeIffSummary ==
    [][/\ \A id \in DOMAIN chatSessions' :
              LET session == StoredAfter(id)
              IN  /\ session.status \in {"active", "completed"}
                  /\ session.status = "completed" <=> session.endTime # None
                  /\ session.status = "completed" <=>
                         SessionSummary(session).hasSummary
                  /\ session.status = "active" =>
                         session.summary = None /\ session.endTime = None
       /\ ListSessions => <<heap, chatSessions>>' = <<heap, chatSessions>>]_vars

====
